---- MODULE Spec2Model ----
(***************************************************************************)
(* Model of daily_digest.py: the collector (fetch_articles), the relevance *)
(* filter (filter_relevant_articles), the digest synthesizer               *)
(* (generate_digest_with_gemini), the renderer (create_html_email), the    *)
(* dispatcher (send_email) and the driver (main).                          *)
(*                                                                         *)
(* Text is a sequence of one-character strings.  A Python value that may   *)
(* be None is a record: None, or Str(s) for the string s.  A feed entry is *)
(* a record whose domain is the set of keys the entry has.                 *)
(***************************************************************************)
EXTENDS Integers, Sequences, FiniteSets, TLC

VARIABLES
    pc,                \* position of main: fetch, filter, configure, synthesize,
                       \* render, send, done, crashed
    today,             \* datetime.now() read by fetch_articles
    idx,               \* index in RSS_SOURCES of the next source of the for loop
    fetched,           \* what feedparser.parse did for each source fetched so far
    all_articles,      \* fetch_articles: all_articles; main: articles
    relevant_articles, \* main: relevant_articles
    synth,             \* how model.generate_content ended: "none", "ok", "raised"
    digest,            \* main: digest (None or a string)
    html_content,      \* main: html_content (None before it is rendered)
    success,           \* main: success, the result of send_email
    calls              \* the calls made to the external collaborators, in order

vars == <<pc, today, idx, fetched, all_articles, relevant_articles, synth,
          digest, html_content, success, calls>>

-----------------------------------------------------------------------------
(* Bounds of the model *)

\* timestamps are 0..MaxTime, in units of 1/UnitsPerDay of a day
MaxTime == 4
UnitsPerDay == 2
\* at most MaxTotal raw entries are returned by the short feeds of one run
MaxTotal == 3
\* the relevance filter is tried on lists of at most MaxArticles articles
MaxArticles == 2
\* the renderer is tried on every digest of at most MaxDigestLen characters
MaxDigestLen == 3

(* Program constants *)

\* feed.entries[:10]
PerSourceCap == 10
\* entry.get('summary', '')[:300]
SummaryCap == 300
\* timedelta(days=1)
WindowDays == 1
\* articles[:15]
MaxPromptArticles == 15

RSS_SOURCES ==
    << "Google News - AI & Disability",
       "Google News - AI Assistive Tech",
       "Google News - ML Accessibility",
       "arXiv - Artificial Intelligence" >>

-----------------------------------------------------------------------------
(* Python values *)

None == [none |-> TRUE]
Str(s) == [text |-> s]

\* Python truthiness of None or a string: `if not digest`
Truthy(v) == v # None /\ v.text # <<>>

Min(a, b) == IF a <= b THEN a ELSE b

\* s[:n]
Prefix(s, n) == SubSeq(s, 1, Min(Len(s), n))

\* s[n:] for n >= 0
Drop(s, n) == SubSeq(s, n + 1, Len(s))

\* s.startswith(p)
StartsWith(s, p) == Len(p) <= Len(s) /\ SubSeq(s, 1, Len(p)) = p

\* `p in s` for strings: scan s from the left for an occurrence of p
RECURSIVE Contains(_, _)
Contains(s, p) ==
    IF StartsWith(s, p) THEN TRUE
    ELSE IF s = <<>> THEN FALSE
    ELSE Contains(Tail(s), p)

UpperCase == <<"A","B","C","D","E","F","G","H","I","J","K","L","M",
               "N","O","P","Q","R","S","T","U","V","W","X","Y","Z">>
LowerCase == <<"a","b","c","d","e","f","g","h","i","j","k","l","m",
               "n","o","p","q","r","s","t","u","v","w","x","y","z">>

LowerChar(c) ==
    IF \E i \in 1..Len(UpperCase) : UpperCase[i] = c
    THEN LowerCase[CHOOSE i \in 1..Len(UpperCase) : UpperCase[i] = c]
    ELSE c

\* str.lower()
Lower(s) == [i \in 1..Len(s) |-> LowerChar(s[i])]

\* str.replace(old, new): non-overlapping occurrences, left to right
RECURSIVE Replace(_, _, _)
Replace(s, old, new) ==
    IF s = <<>> THEN <<>>
    ELSE IF StartsWith(s, old) THEN new \o Replace(Drop(s, Len(old)), old, new)
    ELSE <<Head(s)>> \o Replace(Tail(s), old, new)

\* index of the first c in s at or after position i, 0 when there is none
RECURSIVE IndexFrom(_, _, _)
IndexFrom(s, c, i) ==
    IF i > Len(s) THEN 0
    ELSE IF s[i] = c THEN i
    ELSE IndexFrom(s, c, i + 1)

-----------------------------------------------------------------------------
(* Dates *)

\* datetime(...).strftime('%Y-%m-%d'): the day of a timestamp, its time of day lost
DateStr(t) == <<"day", t \div UnitsPerDay>>

Recent == <<"R","e","c","e","n","t">>
NoTitle == <<"N","o"," ","T","i","t","l","e">>

\* yesterday = today - timedelta(days=1)
Yesterday(now) == now - WindowDays * UnitsPerDay

-----------------------------------------------------------------------------
(* fetch_articles *)

\* entry.get(key, default)
Get(entry, key, default) == IF key \in DOMAIN entry THEN entry[key] ELSE default

\* hasattr(entry, 'published_parsed')
HasPublished(entry) == "published_parsed" \in DOMAIN entry

\* datetime(*entry.published_parsed[:6]) raises when published_parsed is None
\* (a date feedparser could not parse) or too short a tuple; the model's time
\* tuple is <<t>> and <<>> stands for the values that make datetime() raise
DatetimeRaises(entry) == HasPublished(entry) /\ Len(entry.published_parsed) # 1

\* pub_date, for an entry on which datetime() does not raise
PubDate(entry) ==
    IF HasPublished(entry) THEN [t |-> entry.published_parsed[1]] ELSE None

\* if pub_date and pub_date < yesterday: continue
TooOld(entry, now) ==
    PubDate(entry) # None /\ PubDate(entry).t < Yesterday(now)

MakeArticle(entry, name) ==
    [ title     |-> Get(entry, "title", NoTitle),
      link      |-> Get(entry, "link", <<>>),
      summary   |-> Prefix(Get(entry, "summary", <<>>), SummaryCap),
      source    |-> name,
      published |-> IF PubDate(entry) # None
                    THEN DateStr(PubDate(entry).t) ELSE Recent ]

\* the body of `for entry in feed.entries[:10]` run over entries, appending to
\* acc; the result is the list when the loop ends and whether it ended by an
\* exception
RECURSIVE ProcessEntries(_, _, _, _)
ProcessEntries(entries, name, now, acc) ==
    IF entries = <<>> THEN [articles |-> acc, raised |-> FALSE]
    ELSE IF DatetimeRaises(Head(entries)) THEN [articles |-> acc, raised |-> TRUE]
    ELSE IF TooOld(Head(entries), now)
         THEN ProcessEntries(Tail(entries), name, now, acc)
    ELSE ProcessEntries(Tail(entries), name, now,
                        Append(acc, MakeArticle(Head(entries), name)))

\* what the feed source did: it raised, or it returned a feed
FeedRaised == [raised |-> TRUE]
Feed(entries) == [raised |-> FALSE, entries |-> entries]

\* one iteration of `for source in RSS_SOURCES`, with its try/except
ProcessSource(out, name, now, acc) ==
    IF out.raised THEN acc
    ELSE ProcessEntries(Prefix(out.entries, PerSourceCap), name, now, acc).articles

-----------------------------------------------------------------------------
(* filter_relevant_articles *)

keywords ==
  << <<"d","i","s","a","b","i","l","i","t","y">>,
     <<"d","i","s","a","b","i","l","i","t","i","e","s">>,
     <<"a","c","c","e","s","s","i","b","l","e">>,
     <<"a","c","c","e","s","s","i","b","i","l","i","t","y">>,
     <<"a","s","s","i","s","t","i","v","e">>,
     <<"i","n","c","l","u","s","i","v","e">>,
     <<"i","n","c","l","u","s","i","o","n">>,
     <<"i","m","p","a","i","r","m","e","n","t">>,
     <<"b","l","i","n","d">>,
     <<"d","e","a","f">>,
     <<"w","h","e","e","l","c","h","a","i","r">>,
     <<"a","u","t","i","s","m">>,
     <<"c","o","g","n","i","t","i","v","e">> >>

ai_keywords ==
  << <<"a","i">>,
     <<"a","r","t","i","f","i","c","i","a","l"," ","i","n","t","e","l","l","i","g","e","n","c","e">>,
     <<"m","a","c","h","i","n","e"," ","l","e","a","r","n","i","n","g">>,
     <<"d","e","e","p"," ","l","e","a","r","n","i","n","g">>,
     <<"n","e","u","r","a","l">> >>

\* any(kw in text for kw in kws)
RECURSIVE AnyIn(_, _)
AnyIn(kws, text) ==
    IF kws = <<>> THEN FALSE
    ELSE IF Contains(text, Head(kws)) THEN TRUE
    ELSE AnyIn(Tail(kws), text)

\* text = (article['title'] + ' ' + article['summary']).lower()
ArticleText(article) == Lower(article.title \o <<" ">> \o article.summary)

has_ai(article) == AnyIn(ai_keywords, ArticleText(article))
has_disability(article) == AnyIn(keywords, ArticleText(article))

\* Keeps with `or` for `and`
KeepsOr(article) == has_ai(article) \/ has_disability(article)

\* if has_ai and has_disability
Keeps(article) == has_ai(article) /\ has_disability(article)

\* FilterLoop inserting at the front of relevant
LoopPrepends(articles, relevant) ==
    LET RECURSIVE Go(_, _)
        Go(as, rel) ==
            IF as = <<>> THEN rel
            ELSE IF Keeps(Head(as)) THEN Go(Tail(as), <<Head(as)>> \o rel)
            ELSE Go(Tail(as), rel)
    IN Go(articles, relevant)

\* the for loop of filter_relevant_articles, appending to relevant
RECURSIVE FilterLoop(_, _)
FilterLoop(articles, relevant) ==
    IF articles = <<>> THEN relevant
    ELSE IF Keeps(Head(articles))
         THEN FilterLoop(Tail(articles), Append(relevant, Head(articles)))
    ELSE FilterLoop(Tail(articles), relevant)

filter_relevant_articles(articles) == FilterLoop(articles, <<>>)

-----------------------------------------------------------------------------
(* generate_digest_with_gemini *)

\* the prompt: the articles[:15] serialized, and len(articles) in the statistics
Prompt(articles) ==
    [ articles_text |-> Prefix(articles, MaxPromptArticles),
      analyzed      |-> Len(articles) ]

\* how model.generate_content(prompt) / response.text ends
SynthRaised == [raised |-> TRUE]
SynthText(s) == [raised |-> FALSE, text |-> s]

\* the try/except around the call: the digest returned
DigestOf(out) == IF out.raised THEN None ELSE Str(out.text)

-----------------------------------------------------------------------------
(* create_html_email *)

H1 == <<"<","h","1",">">>
H2Pattern == <<"\n","#","#"," ">>
H2 == <<"<","/","h","1",">","\n","<","h","2",">">>
H3Pattern == <<"\n","#","#","#"," ">>
H3 == <<"<","/","h","2",">","\n","<","h","3",">">>
BulletPattern == <<"\n","-"," ">>
\* '<br>' followed by the bullet character and a space
Bullet == <<"<","b","r",">","(bullet)"," ">>

\* html_content.replace('# ', '<h1>').replace('\n## ', ...).replace('\n### ', ...)
ConvertHeaders(s) ==
    Replace(Replace(Replace(s, <<"#"," ">>, H1), H2Pattern, H2), H3Pattern, H3)

\* re.sub(r'\[([^\]]+)\]\(([^\)]+)\)', r'<a href="\2">\1</a>', s)
RECURSIVE ConvertLinks(_)
ConvertLinks(s) ==
    IF s = <<>> THEN <<>>
    ELSE LET close == IF Head(s) = "[" THEN IndexFrom(s, "]", 2) ELSE 0
             paren == IF close > 2 /\ close < Len(s) /\ s[close + 1] = "("
                      THEN IndexFrom(s, ")", close + 2) ELSE 0
         IN IF paren > close + 2
            THEN <<"<","a"," ","h","r","e","f","=","\"">>
                 \o SubSeq(s, close + 2, paren - 1) \o <<"\"",">">>
                 \o SubSeq(s, 2, close - 1) \o <<"<","/","a",">">>
                 \o ConvertLinks(Drop(s, paren))
            ELSE <<Head(s)>> \o ConvertLinks(Tail(s))

\* re.sub(r'\*\*([^\*]+)\*\*', r'<strong>\1</strong>', s)
RECURSIVE ConvertBold(_)
ConvertBold(s) ==
    IF s = <<>> THEN <<>>
    ELSE LET close == IF Len(s) >= 2 /\ s[1] = "*" /\ s[2] = "*"
                      THEN IndexFrom(s, "*", 3) ELSE 0
         IN IF close > 3 /\ close < Len(s) /\ s[close + 1] = "*"
            THEN <<"<","s","t","r","o","n","g",">">>
                 \o SubSeq(s, 3, close - 1)
                 \o <<"<","/","s","t","r","o","n","g",">">>
                 \o ConvertBold(Drop(s, close + 1))
            ELSE <<Head(s)>> \o ConvertBold(Tail(s))

\* html_content.replace('\n- ', '<br>* ')
ConvertLists(s) == Replace(s, BulletPattern, Bullet)

\* the fixed text of styled_html before and after {html_content}
ShellHead == <<"<!DOCTYPE html><html><head><style>...</style></head><body><div class=container>">>
ShellTail == <<"<div class=footer>...</div></div></body></html>">>

\* html_content as it is interpolated into styled_html
Substituted(digest_content) ==
    ConvertLists(ConvertBold(ConvertLinks(ConvertHeaders(digest_content))))

create_html_email(digest_content) ==
    ShellHead \o Substituted(digest_content) \o ShellTail

-----------------------------------------------------------------------------
(* The inputs tried *)

\* every sequence over S of length at most n
SeqsUpTo(S, n) == UNION { [1..k -> S] : k \in 0..n }

U1 == <<"u","1">>
U2 == <<"u","2">>

TitleBoth == <<"A","I"," ","f","o","r"," ","t","h","e"," ","b","l","i","n","d">>
TitleSaid == <<"S","h","e"," ","s","a","i","d"," ","h","i">>
TitleDeaf == <<"D","e","a","f"," ","c","l","u","b">>
TitleDeep == <<"D","e","e","p">>
TitleRain == <<"R","a","i","n">>
SumLearn == <<"L","e","a","r","n","i","n","g"," ","i","s"," ","i","n","c","l","u","s","i","v","e">>
SumNeural == <<"N","e","u","r","a","l"," ","n","e","t">>
SumNews == <<"n","e","w","s">>

\* raw feed entries: a dated one, one with the same link and no date, one with
\* none of the keys, and one whose date feedparser could not parse
\* dated before the window, on its edge, and now
EntryTimes == {0, Yesterday(MaxTime), MaxTime}
EntryKinds ==
    { [title |-> TitleBoth, link |-> U1, summary |-> SumNews,
       published_parsed |-> <<t>>] : t \in EntryTimes }
    \cup
    { [title |-> TitleDeaf, link |-> U1, summary |-> SumNeural],
      [summary |-> SumNews],
      [title |-> TitleRain, link |-> U2, summary |-> SumNews,
       published_parsed |-> <<>>] }

\* a feed longer than the per-source cap
LongFeed ==
    Feed([i \in 1..(PerSourceCap + 1) |->
            [title |-> TitleRain, link |-> <<"u", i>>, summary |-> SumNews]])

\* the raw entries the feeds fetched so far have returned, a long feed
\* counting for all of MaxTotal
Used(outs) ==
    LET RECURSIVE Sum(_)
        Sum(os) == IF os = <<>> THEN 0
                   ELSE (IF Head(os).raised THEN 0
                         ELSE Min(Len(Head(os).entries), MaxTotal))
                        + Sum(Tail(os))
    IN Sum(outs)

\* what a source may do in a run of the collector alone
CollectorFeeds ==
    {FeedRaised}
    \cup { Feed(es) : es \in SeqsUpTo(EntryKinds, MaxTotal - Used(fetched)) }
    \cup (IF Used(fetched) = 0 THEN {LongFeed} ELSE {})

\* what a source may do in a run of the whole pipeline
PipelineFeeds ==
    { FeedRaised,
      Feed(<<>>),
      Feed(<< [title |-> TitleBoth, link |-> U1, summary |-> SumNews,
               published_parsed |-> <<today>>] >>),
      Feed(<< [title |-> TitleRain, link |-> U2, summary |-> SumNews] >>) }

\* what the text synthesizer may do
DigestPlain == <<"#"," ","A","\n","-"," ","b">>
DigestList == <<"<","u","l",">","\n","-"," ","b">>
SynthOutcomes ==
    { SynthRaised, SynthText(<<>>), SynthText(DigestPlain), SynthText(DigestList) }

\* the articles the relevance filter is tried on
FilterTitles == {TitleBoth, TitleSaid, TitleDeaf, TitleDeep, TitleRain}
FilterSummaries == {<<>>, SumLearn, SumNeural, SumNews}
FilterArticles ==
    { [title |-> t, link |-> U1, summary |-> s,
       source |-> RSS_SOURCES[1], published |-> Recent]
      : t \in FilterTitles, s \in FilterSummaries }

\* the digests the renderer is tried on
DigestChars == {"#", " ", "\n", "-", "*", "[", "]", "(", ")", "a"}
DigestSamples ==
    { DigestPlain, DigestList,
      <<"<","u","l",">","<","l","i",">","a","<","/","l","i",">","<","/","u","l",">">>,
      <<"<","u","l",">","[","a","]","(","a",")">>,
      <<"*","*","a","*","*"," ","<","u","l",">">>,
      <<"#"," ","a","\n","#","#"," ","a","\n","#","#","#"," ","a">>,
      <<"[","[","a","]","(","a",")","*","*","*","a","*","*">> }
RenderDigests == (SeqsUpTo(DigestChars, MaxDigestLen) \ {<<>>}) \cup DigestSamples

-----------------------------------------------------------------------------
(* The run of main *)

Bool(b) == [bool |-> b]

Start(nows) ==
    /\ pc = "fetch"
    /\ today \in nows
    /\ idx = 1
    /\ fetched = <<>>
    /\ all_articles = <<>>
    /\ relevant_articles = <<>>
    /\ synth = "none"
    /\ digest = None
    /\ html_content = None
    /\ success = None
    /\ calls = <<>>

\* main is entered; fetch_articles reads the clock
Init == Start({MaxTime})

\* whether the iteration for what the source did ends in the except clause
SourceFailed(out, name, now) ==
    \/ out.raised
    \/ ProcessEntries(Prefix(out.entries, PerSourceCap), name, now, <<>>).raised

\* FetchSource with the try around the whole loop: a failure ends the loop
FetchSourceAborts(pool) ==
    /\ pc = "fetch"
    /\ idx <= Len(RSS_SOURCES)
    /\ \E out \in pool :
         /\ fetched' = Append(fetched, out)
         /\ all_articles' =
                ProcessSource(out, RSS_SOURCES[idx], today, all_articles)
         /\ idx' = IF SourceFailed(out, RSS_SOURCES[idx], today)
                   THEN Len(RSS_SOURCES) + 1 ELSE idx + 1
    /\ calls' = Append(calls, [op |-> "feedparser.parse", source |-> idx])
    /\ UNCHANGED <<pc, today, relevant_articles, synth, digest, html_content,
                   success>>

\* FetchSource with a retry: a source that failed is fetched again
FetchSourceRetries(pool) ==
    /\ pc = "fetch"
    /\ idx <= Len(RSS_SOURCES)
    /\ \E out \in pool :
         /\ fetched' = IF out.raised THEN fetched ELSE Append(fetched, out)
         /\ all_articles' =
                ProcessSource(out, RSS_SOURCES[idx], today, all_articles)
         /\ idx' = IF out.raised THEN idx ELSE idx + 1
    /\ calls' = Append(calls, [op |-> "feedparser.parse", source |-> idx])
    /\ UNCHANGED <<pc, today, relevant_articles, synth, digest, html_content,
                   success>>

\* fetch_articles: one iteration of `for source in RSS_SOURCES`
FetchSource(pool) ==
    /\ pc = "fetch"
    /\ idx <= Len(RSS_SOURCES)
    /\ \E out \in pool :
         /\ fetched' = Append(fetched, out)
         /\ all_articles' =
                ProcessSource(out, RSS_SOURCES[idx], today, all_articles)
    /\ idx' = idx + 1
    /\ calls' = Append(calls, [op |-> "feedparser.parse", source |-> idx])
    /\ UNCHANGED <<pc, today, relevant_articles, synth, digest, html_content,
                   success>>

\* fetch_articles returns; main: `if not articles: return`
FetchReturn ==
    /\ pc = "fetch"
    /\ idx > Len(RSS_SOURCES)
    /\ pc' = IF all_articles = <<>> THEN "done" ELSE "filter"
    /\ UNCHANGED <<today, idx, fetched, all_articles, relevant_articles, synth,
                   digest, html_content, success, calls>>

\* main: relevant_articles = filter_relevant_articles(articles);
\* `if not relevant_articles: return`
Filter ==
    /\ pc = "filter"
    /\ relevant_articles' = filter_relevant_articles(all_articles)
    /\ pc' = IF relevant_articles' = <<>> THEN "done" ELSE "configure"
    /\ UNCHANGED <<today, idx, fetched, all_articles, synth, digest,
                   html_content, success, calls>>

\* generate_digest_with_gemini up to the try: `if not articles: return None`,
\* then genai.configure and genai.GenerativeModel, outside any try
Configure ==
    /\ pc = "configure"
    /\ IF relevant_articles = <<>>
       THEN /\ pc' = "done"
            /\ calls' = calls
       ELSE \E ok \in BOOLEAN :
              /\ pc' = IF ok THEN "synthesize" ELSE "crashed"
              /\ calls' = Append(calls, [op |-> "genai.configure"])
    /\ UNCHANGED <<today, idx, fetched, all_articles, relevant_articles, synth,
                   digest, html_content, success>>

\* the try/except around model.generate_content; main: `if not digest: return`
Synthesize ==
    /\ pc = "synthesize"
    /\ \E out \in SynthOutcomes :
         /\ synth' = IF out.raised THEN "raised" ELSE "ok"
         /\ digest' = DigestOf(out)
    /\ pc' = IF Truthy(digest') THEN "render" ELSE "done"
    /\ calls' = Append(calls, [op |-> "generate_content",
                               prompt |-> Prompt(relevant_articles)])
    /\ UNCHANGED <<today, idx, fetched, all_articles, relevant_articles,
                   html_content, success>>

\* main: html_content = create_html_email(digest)
Render ==
    /\ pc = "render"
    /\ html_content' = Str(create_html_email(digest.text))
    /\ pc' = "send"
    /\ UNCHANGED <<today, idx, fetched, all_articles, relevant_articles, synth,
                   digest, success, calls>>

\* send_email: the SMTP session succeeds or raises inside the try
SendEmail ==
    /\ pc = "send"
    /\ \E ok \in BOOLEAN : success' = Bool(ok)
    /\ calls' = Append(calls, [op |-> "smtp", subject |-> DateStr(today),
                               body |-> html_content.text])
    /\ pc' = "done"
    /\ UNCHANGED <<today, idx, fetched, all_articles, relevant_articles, synth,
                   digest, html_content>>

Next ==
    \/ FetchSource(PipelineFeeds)
    \/ FetchReturn
    \/ Filter
    \/ Configure
    \/ Synthesize
    \/ Render
    \/ SendEmail

Spec == Init /\ [][Next]_vars

\* the collector alone, on the richer feeds
InitCollect == Start({MaxTime - 1, MaxTime})
NextCollect == FetchSource(CollectorFeeds) \/ FetchReturn
SpecCollect == InitCollect /\ [][NextCollect]_vars

\* the relevance filter alone, applied to each list of articles
InitFilter ==
    /\ pc = "filter"
    /\ today = MaxTime
    /\ idx = Len(RSS_SOURCES) + 1
    /\ fetched = <<>>
    /\ all_articles \in SeqsUpTo(FilterArticles, MaxArticles) \ {<<>>}
    /\ relevant_articles = <<>>
    /\ synth = "none"
    /\ digest = None
    /\ html_content = None
    /\ success = None
    /\ calls = <<>>
NextFilter == Filter
SpecFilter == InitFilter /\ [][NextFilter]_vars

\* the renderer alone, applied to each digest
InitRender ==
    /\ pc = "render"
    /\ today = MaxTime
    /\ idx = Len(RSS_SOURCES) + 1
    /\ fetched = <<>>
    /\ all_articles = <<>>
    /\ relevant_articles = <<>>
    /\ synth = "ok"
    /\ digest \in { Str(d) : d \in RenderDigests }
    /\ html_content = None
    /\ success = None
    /\ calls = <<>>
NextRender == Render
SpecRender == InitRender /\ [][NextRender]_vars

-----------------------------------------------------------------------------
(* Properties *)

UL == <<"<","u","l",">">>

\* the positions of calls at which op was called
CallsOf(op) == { i \in 1..Len(calls) : calls[i].op = op }

\* p occurs in s at some position
Occurs(p, s) ==
    \E i \in 0..(Len(s) - Len(p)) : SubSeq(s, i + 1, i + Len(p)) = p

\* the entries of source k the collector looks at
Capped(k) == Prefix(fetched[k].entries, PerSourceCap)

\* fetching source k raised, or processing one of its entries did
Failed(k) ==
    \/ fetched[k].raised
    \/ \E j \in 1..Len(Capped(k)) : DatetimeRaises(Capped(k)[j])

FromSource(k) == SelectSeq(all_articles, LAMBDA a : a.source = RSS_SOURCES[k])

\* C1: when the synthesizer call raised on a non-empty list of relevant
\* articles, the digest is a non-empty string that contains the title and the
\* link of every one of them
C1_FallbackGuarantee ==
    (synth = "raised" /\ relevant_articles # <<>>) =>
        /\ Truthy(digest)
        /\ \A i \in 1..Len(relevant_articles) :
             /\ Occurs(relevant_articles[i].title, digest.text)
             /\ Occurs(relevant_articles[i].link, digest.text)

\* C2: a finished run has invoked the mailer exactly when the collector
\* returned at least one article
C2_AlwaysNotify ==
    pc = "done" => (CallsOf("smtp") # {} <=> all_articles # <<>>)

\* C3: the collector's list never holds two articles with the same non-empty
\* link
C3_LinkDedup ==
    \A i, j \in 1..Len(all_articles) :
        (i < j /\ all_articles[i].link # <<>>) =>
            all_articles[i].link # all_articles[j].link

\* C4: of the entries of a fetched source within the cap, the collector keeps
\* all but those dated strictly before the window, and keeps every entry
\* without a date or with a date that cannot be parsed, as 'Recent'
C4_RecencyWindow ==
    \A k \in 1..Len(fetched) :
        ~fetched[k].raised =>
            LET Dated(e) == HasPublished(e) /\ Len(e.published_parsed) = 1
                Old(e) == Dated(e) /\ e.published_parsed[1] < Yesterday(today)
            IN /\ Len(FromSource(k))
                    = Len(SelectSeq(Capped(k), LAMBDA e : ~Old(e)))
               /\ Len(SelectSeq(FromSource(k), LAMBDA a : a.published = Recent))
                    = Len(SelectSeq(Capped(k), LAMBDA e : ~Dated(e)))

\* C5: an article is in the filter's result exactly when its lowercased
\* title-and-summary text holds a term of the AI set and a term of the
\* disability set
C5_AndGate ==
    pc # "filter" =>
        \A n \in 1..Len(all_articles) :
            LET a == all_articles[n]
                text == Lower(a.title \o <<" ">> \o a.summary)
            IN (\E m \in 1..Len(relevant_articles) : relevant_articles[m] = a)
               <=> /\ \E i \in 1..Len(ai_keywords) : Occurs(ai_keywords[i], text)
                   /\ \E i \in 1..Len(keywords) : Occurs(keywords[i], text)

C5_Witness ==
    /\ pc = "configure"
    /\ Len(all_articles) = 2
    /\ Len(relevant_articles) = 1
    /\ \E n \in 1..2 : has_ai(all_articles[n]) /\ ~has_disability(all_articles[n])

\* the failing sources replaced by sources that return no entries
RECURSIVE CleanRun(_, _)
CleanRun(k, acc) ==
    IF k > Len(fetched) THEN acc
    ELSE CleanRun(k + 1,
                  ProcessSource(IF Failed(k) THEN Feed(<<>>) ELSE fetched[k],
                                RSS_SOURCES[k], today, acc))

\* C6: when the collector returns it has fetched every source, whichever
\* raised, and the articles of the sources that did not fail are those of the
\* run in which the failing sources return no entries
C6_SourceIsolation ==
    pc # "fetch" =>
        /\ pc \in {"filter", "done"}
        /\ Len(fetched) = Len(RSS_SOURCES)
        /\ SelectSeq(all_articles,
                     LAMBDA a : \E k \in 1..Len(fetched) :
                                   ~Failed(k) /\ a.source = RSS_SOURCES[k])
             = CleanRun(1, <<>>)

C6_Witness ==
    /\ pc = "filter"
    /\ fetched[1].raised
    /\ ~fetched[2].raised /\ Failed(2) /\ FromSource(2) # <<>>
    /\ ~Failed(3) /\ FromSource(3) # <<>>

\* C7: a digest that contains '<ul>' is embedded unchanged in the shell
C7_ListMarkerUnchanged ==
    (pc = "send" /\ Occurs(UL, digest.text)) =>
        html_content.text = ShellHead \o digest.text \o ShellTail

\* C8: main never ends by an unhandled exception, and a mailer failure is
\* the result False of send_email
C8_NoEscape ==
    /\ pc # "crashed"
    /\ CallsOf("smtp") # {} => success \in {Bool(TRUE), Bool(FALSE)}

\* r is s with some elements left out
RECURSIVE IsSubsequence(_, _)
IsSubsequence(r, s) ==
    IF r = <<>> THEN TRUE
    ELSE IF s = <<>> THEN FALSE
    ELSE IF Head(r) = Head(s) THEN IsSubsequence(Tail(r), Tail(s))
    ELSE IsSubsequence(r, Tail(s))

\* C9: the filter's result is a subsequence of its input, and the input is
\* left as it was
C9_OrderPreserving ==
    [][pc = "filter" =>
         /\ all_articles' = all_articles
         /\ IsSubsequence(relevant_articles', all_articles)]_vars

C9_Witness ==
    /\ pc = "configure"
    /\ Len(relevant_articles) = 2
    /\ relevant_articles[1] # relevant_articles[2]

\* the stage a call belongs to
Stage(call) ==
    CASE call.op = "feedparser.parse" -> 1
      [] call.op = "genai.configure" -> 2
      [] call.op = "generate_content" -> 3
      [] call.op = "smtp" -> 4

\* C10: the sources are fetched once each in registry order, the synthesizer
\* and the mailer are called at most once, and the calls of a stage come
\* after the stage before it has completed
C10_AttemptOnce ==
    /\ \A i \in CallsOf("feedparser.parse") : i < idx /\ calls[i].source = i
    /\ \A i \in 1..(idx - 1) : calls[i].op = "feedparser.parse"
    /\ pc # "fetch" => idx = Len(RSS_SOURCES) + 1
    /\ Cardinality(CallsOf("generate_content")) <= 1
    /\ Cardinality(CallsOf("smtp")) <= 1
    /\ \A i, j \in 1..Len(calls) :
         i < j => \/ Stage(calls[i]) < Stage(calls[j])
                  \/ Stage(calls[i]) = 1 /\ Stage(calls[j]) = 1
    /\ CallsOf("genai.configure") # {} =>
         /\ pc # "fetch"
         /\ relevant_articles = filter_relevant_articles(all_articles)
         /\ relevant_articles # <<>>
    /\ CallsOf("generate_content") # {} => synth # "none"
    /\ CallsOf("smtp") # {} =>
         /\ synth = "ok"
         /\ html_content = Str(create_html_email(digest.text))

C10_Witness ==
    /\ pc = "done"
    /\ success = Bool(FALSE)
    /\ fetched[1].raised
    /\ ~fetched[2].raised

====
